---- MODULE Spec2Model ----
(***************************************************************************)
(* A model of the photo auto-organisation program (src/main.py): the      *)
(* watch folder, the session workflow run for every QR trigger photo      *)
(* (collect, limit check, backup, relocate, record), the startup scan,    *)
(* the live creation events handled on the observer thread, and the       *)
(* stop-on-error flag polled by the main loop.                             *)
(*                                                                         *)
(* Time is counted in ticks, TicksPerSecond of them per second: EXIF      *)
(* dates have whole-second resolution, file modification times are finer. *)
(* File names are kept structured: a "num" name is "{digits}{suffix}", a   *)
(* "QR" name is "QR_{patient}{suffix}" (n = 0) or                         *)
(* "QR_{patient}_{n}{suffix}" (n > 0).                                    *)
(***************************************************************************)
EXTENDS Integers, Sequences, FiniteSets, TLC

\* ------------------------------------------------------------------ bounds
\* The camera writes photos 1..NPhotos to the watch folder, some before the
\* program starts and the others while it runs.
NPhotos == 5
\* max_photos_per_session is configured in 1..MaxPhotosBound.
MaxPhotosBound == 2
\* At most MaxFailures copy or move operations fail with an I/O error.
MaxFailures == 1
\* Resolution of a timestamp: ticks per second.
TicksPerSecond == 2
\* Entries of the watch folder in the collector's own specification.
NEntries == 3

\* ------------------------------------------------------- program constants
\* config.get('max_minutes_window', 60)
max_minutes_window == 60
\* config.get('startup_scan_minutes', 30)
startup_scan_minutes == 30
\* f"{seq_num:03d}": the minimum width of a sequence number
SeqWidth == 3

TicksPerMinute == 60 * TicksPerSecond
TicksPerDay == 24 * 60 * TicksPerMinute
\* timedelta(minutes=self.max_minutes_window)
Window == max_minutes_window * TicksPerMinute

\* ---------------------------------------------------------------- helpers
Max(S) == CHOOSE x \in S : \A y \in S : y <= x

Range(s) == {s[i] : i \in 1..Len(s)}

\* All orders in which a directory enumeration (iterdir) may list the set S.
RECURSIVE Enumerations(_)
Enumerations(S) ==
    IF S = {} THEN {<<>>}
    ELSE UNION {{<<x>> \o rest : rest \in Enumerations(S \ {x})} : x \in S}

\* str.lower() on a file suffix.
Lower(suffix) ==
    CASE suffix = ".JPG" -> ".jpg"
      [] suffix = ".PNG" -> ".png"
      [] OTHER -> suffix

\* The decimal digits of n, most significant first.
RECURSIVE Digits(_)
Digits(n) == IF n < 10 THEN <<n>> ELSE Append(Digits(n \div 10), n % 10)

RECURSIVE ZeroPad(_, _)
ZeroPad(ds, width) == IF Len(ds) >= width THEN ds ELSE ZeroPad(<<0>> \o ds, width)

\* f"{seq_num:03d}"
FormatSeq(n) == ZeroPad(Digits(n), SeqWidth)

\* int(stem) of a stem made of decimal digits.
RECURSIVE StemInt(_)
StemInt(ds) == IF Len(ds) = 0 THEN 0 ELSE 10 * StemInt(SubSeq(ds, 1, Len(ds) - 1)) + ds[Len(ds)]

\* f"{seq_num:03d}{suffix}"
NumName(n, suffix) == [kind |-> "num", stem |-> FormatSeq(n), patient |-> "", n |-> 0, suffix |-> suffix]
\* A file whose stem is the digit string ds.
DigitName(ds, suffix) == [kind |-> "num", stem |-> ds, patient |-> "", n |-> 0, suffix |-> suffix]
\* f"QR_{patient_id}{suffix}" (n = 0), f"QR_{patient_id}_{n}{suffix}" (n > 0)
QRName(patient_id, n, suffix) == [kind |-> "QR", stem |-> <<>>, patient |-> patient_id, n |-> n, suffix |-> suffix]

\* f.stem.isdigit()
StemIsDigit(name) == name.kind = "num"

\* datetime.strftime("%Y%m%d_%H%M%S"): the timestamp cut to whole seconds.
generate_session_id(qr_timestamp) == qr_timestamp \div TicksPerSecond

\* datetime.strftime("%Y.%m.%d"): the day of the timestamp.
DateFolder(qr_timestamp) == qr_timestamp \div TicksPerDay

\* ------------------------------------------------- leaf components (pure)
\* is_image_file: the lower-cased suffix is one of the supported formats.
SupportedFormats == {".jpg", ".jpeg", ".png", ".gif", ".bmp"}
is_image_file(e) == Lower(e.suffix) \in SupportedFormats

\* _should_skip_path: the name starts with '_' or '.'.
should_skip_path(e) == e.first \in {"_", "."}

\* get_exif_date: the EXIF date (whole seconds), or None.
\* get_image_timestamp: the EXIF date if there is one, else st_mtime.
get_image_timestamp(e) == IF e.exif_ok THEN e.exif * TicksPerSecond ELSE e.mtime

\* parse_patient_id: strip the "PATIENT_ID:" prefix.
parse_patient_id(qr_data) == qr_data.id

\* detect_qr_code: the patient id of the first QR code, "" (None) without one.
detect_qr_code(e) == IF e.qr.decoded THEN parse_patient_id(e.qr) ELSE ""

\* ------------------------------------------------------ session collector
RECURSIVE InsertBeforeEqual(_, _)
InsertBeforeEqual(sorted, item) ==
    IF Len(sorted) = 0 THEN <<item>>
    ELSE IF sorted[Len(sorted)][1] < item[1] THEN Append(sorted, item)
    ELSE Append(InsertBeforeEqual(SubSeq(sorted, 1, Len(sorted) - 1), item), sorted[Len(sorted)])

\* list.sort(key=timestamp): a stable sort, here by insertion.
RECURSIVE InsertByTime(_, _)
InsertByTime(sorted, item) ==
    IF Len(sorted) = 0 THEN <<item>>
    ELSE IF sorted[Len(sorted)][1] <= item[1] THEN Append(sorted, item)
    ELSE Append(InsertByTime(SubSeq(sorted, 1, Len(sorted) - 1), item), sorted[Len(sorted)])

RECURSIVE SortByTime(_)
SortByTime(items) ==
    IF Len(items) = 0 THEN <<>>
    ELSE InsertByTime(SortByTime(SubSeq(items, 1, Len(items) - 1)), items[Len(items)])

InWindowLowerOpen(timestamp, qr_timestamp) ==
    qr_timestamp - Window < timestamp /\ timestamp <= qr_timestamp

\* cutoff_time <= timestamp <= qr_timestamp
InWindow(timestamp, qr_timestamp) ==
    qr_timestamp - Window <= timestamp /\ timestamp <= qr_timestamp

\* The loop over watch_folder.iterdir(): listing is the enumeration, attrs the
\* attributes of each entry, qr the trigger's entry.
RECURSIVE QualifyingLoop(_, _, _, _)
QualifyingLoop(listing, attrs, qr_timestamp, qr) ==
    IF Len(listing) = 0 THEN <<>>
    ELSE LET file == listing[Len(listing)]
             rest == QualifyingLoop(SubSeq(listing, 1, Len(listing) - 1), attrs, qr_timestamp, qr)
         IN  IF ~attrs[file].is_file THEN rest
             ELSE IF should_skip_path(attrs[file]) THEN rest
             ELSE IF ~is_image_file(attrs[file]) THEN rest
             ELSE IF attrs[file].resolved = attrs[qr].resolved THEN rest
             ELSE IF InWindow(get_image_timestamp(attrs[file]), qr_timestamp)
                  THEN Append(rest, <<get_image_timestamp(attrs[file]), file>>)
             ELSE rest

collect_skipping_markers(listing, attrs, qr_timestamp, qr) ==
    LET qualifying == SelectSeq(SortByTime(QualifyingLoop(listing, attrs, qr_timestamp, qr)),
                                LAMBDA item : ~attrs[item[2]].qr.decoded)
    IN  [i \in 1..Len(qualifying) |-> qualifying[i][2]]

collect_qualifying_photos(listing, attrs, qr_timestamp, qr) ==
    LET qualifying == SortByTime(QualifyingLoop(listing, attrs, qr_timestamp, qr))
    IN  [i \in 1..Len(qualifying) |-> qualifying[i][2]]

\* ------------------------------------------------------------- the photos
Photos == 1..NPhotos
Patients == {"P1", "P2"}
NoQR == [decoded |-> FALSE, prefixed |-> FALSE, id |-> ""]
QR(prefixed, id) == [decoded |-> TRUE, prefixed |-> prefixed, id |-> id]

\* Noon of day 1, a whole second.
Base == TicksPerDay + 12 * 60 * TicksPerMinute
\* datetime.now() when the startup scan runs.
Now == Base + 5 * TicksPerMinute

\* A regular image file of the watch folder.
Image(f, suffix, exif_ok, exif_ticks, mtime, qr) ==
    [is_file |-> TRUE, first |-> "I", suffix |-> suffix, resolved |-> f,
     exif_ok |-> exif_ok, exif |-> exif_ticks \div TicksPerSecond, mtime |-> mtime, qr |-> qr]

\* What the camera writes: photo 1 exactly one window before photo 3, photo 2
\* ten minutes before it, photo 3 a trigger, photo 4 a trigger taken within
\* the same second as photo 3, photo 5 a trigger of another patient.
Photo(f) ==
    CASE f = 1 -> Image(f, ".jpg", TRUE, Base - Window, Base + 7, NoQR)
      [] f = 2 -> Image(f, ".png", FALSE, 0, Base - 10 * TicksPerMinute, NoQR)
      [] f = 3 -> Image(f, ".jpg", TRUE, Base, Base + 5, QR(TRUE, "P1"))
      [] f = 4 -> Image(f, ".jpg", FALSE, 0, Base + 1, QR(FALSE, "P1"))
      [] f = 5 -> Image(f, ".png", TRUE, Base + TicksPerSecond, Base + 9, QR(FALSE, "P2"))
      [] OTHER -> Image(f, ".jpg", FALSE, 0, Base - f, NoQR)

Roster == [f \in Photos |-> Photo(f)]

\* What _collect_qualifying_photos may return, over all listings of the watch
\* folder, for every content S of the folder and every trigger photo qr:
\* tabulated once.
CollectTable ==
    {<<S, qr, {collect_qualifying_photos(listing, Roster, get_image_timestamp(Roster[qr]), qr) :
                  listing \in Enumerations(S)}>> : S \in SUBSET Photos, qr \in Photos}
CollectOutcomes(S, qr) == (CHOOSE t \in CollectTable : t[1] = S /\ t[2] = qr)[3]

\* Files found in P1's folder of day 1 before the program starts.
EarlierFile(name, content) ==
    [patient_id |-> "P1", date |-> DateFolder(Base), name |-> name, content |-> content]
EarlierFiles ==
    {EarlierFile(NumName(1, ".jpg"), 101), EarlierFile(NumName(2, ".jpg"), 102),
     EarlierFile(DigitName(<<3>>, ".png"), 103),
     EarlierFile(QRName("P1", 0, ".jpg"), 104), EarlierFile(QRName("P1", 2, ".jpg"), 105)}

TopDir(name) == [top |-> name, sub |-> -1]
SubDir(name, sub) == [top |-> name, sub |-> sub]

\* ------------------------------------------------------------------ state
VARIABLES
    collector,       \* the collector run on its own: its input and its result
    config,          \* stop_on_error, max_photos_per_session
    watch_folder,    \* the photos that are files of the watch folder
    camera,          \* the photos the camera has not written yet
    dirs,            \* the directories under the watch folder
    backup_files,    \* _backup/{session_id}/{name}
    dest_files,      \* {patient_id}/{date}/{name}
    done_files,      \* _done/done_{session_id}_{patient_id}.txt
    error_files,     \* _error/error_{session_id}.txt
    stop_requested,
    main_pc,         \* the main thread's place in run()
    observer,        \* "unstarted", "running", "stopping", "stopped"
    event_queue,     \* creation events not yet dispatched
    worker,          \* per thread: its place in process_images and its session
    session_count,   \* sessions started so far
    failures         \* I/O errors raised so far

vars == <<collector, config, watch_folder, camera, dirs, backup_files, dest_files, done_files,
          error_files, stop_requested, main_pc, observer, event_queue, worker,
          session_count, failures>>

Workers == {"main", "observer"}

\* A thread outside process_images.
Idle ==
    [phase |-> "idle", batch |-> <<>>, qr |-> 0, patient_id |-> "", qr_timestamp |-> 0,
     session_id |-> 0, photos |-> <<>>, i |-> 0, seq_start |-> 0, exc |-> "",
     outcome |-> "", context |-> "", no |-> 0, n_done |-> 0, n_error |-> 0,
     moved |-> {}, qr_dest |-> QRName("", 0, ""),
     pre_dest |-> {}, pre_backup |-> {}, pre_dirs |-> {}]

InSession(w) == worker[w].phase \in {"collect", "limit", "backup", "relocate", "record"}

\* ------------------------------------------------------------ the folders
BackupDir(session_id) == SubDir("_backup", session_id)
DestDir(patient_id, qr_timestamp) == SubDir(patient_id, DateFolder(qr_timestamp))

BackupFolder(files, session_id) == {x \in files : x.session_id = session_id}
DestFolder(files, patient_id, date) == {x \in files : x.patient_id = patient_id /\ x.date = date}

\* shutil.copy2 to _backup/{session_id}/{name}: a file of that name is replaced.
CopyToBackup(files, session_id, name, content) ==
    {x \in files : ~(x.session_id = session_id /\ x.name = name)}
        \cup {[session_id |-> session_id, name |-> name, content |-> content]}

\* shutil.move to {patient_id}/{date}/{name}: a file of that name is replaced.
MoveToDest(files, patient_id, date, name, content) ==
    {x \in files : ~(x.patient_id = patient_id /\ x.date = date /\ x.name = name)}
        \cup {[patient_id |-> patient_id, date |-> date, name |-> name, content |-> content]}

\* mkdir(parents=True, exist_ok=True)
Mkdir(ds, d) == ds \cup {TopDir(d.top), d}

\* The creation events the observer's emitter queues: only while the observer
\* runs, and only for files written directly to the watch folder. The events
\* of the directories the program makes itself (_backup, _error, _done, the
\* patient folders) are not queued: on_created returns at once on them.
FileEvent(f) == [is_directory |-> FALSE, file |-> f]
Emit(queue, events) == IF observer = "running" THEN queue \o events ELSE queue

\* ------------------------------------------------------ session committer
\* The sequence numbers found in a destination folder: int(f.stem) of every
\* file whose stem is made of digits.
ExistingNums(folder) == {StemInt(x.name.stem) : x \in {y \in folder : StemIsDigit(y.name)}}

SeqStartAtMax(folder) ==
    IF ExistingNums(folder) = {} THEN 1 ELSE Max(ExistingNums(folder))

\* seq_start = max(existing_nums, default=0) + 1
SeqStart(folder) ==
    (IF ExistingNums(folder) = {} THEN 0 ELSE Max(ExistingNums(folder))) + 1

\* while qr_dest_path.exists(): ... counter += 1
RECURSIVE ProbeQR(_, _, _, _)
ProbeQR(folder, patient_id, suffix, counter) ==
    IF \E x \in folder : x.name = QRName(patient_id, counter, suffix)
    THEN ProbeQR(folder, patient_id, suffix, counter + 1)
    ELSE counter

QRDestNameNoProbe(folder, patient_id, suffix) == QRName(patient_id, 0, suffix)

QRDestNameFirstSuffix(folder, patient_id, suffix) ==
    IF \E x \in folder : x.name = QRName(patient_id, 0, suffix)
    THEN QRName(patient_id, 1, suffix)
    ELSE QRName(patient_id, 0, suffix)

\* The name the trigger photo gets in the destination folder.
QRDestName(folder, patient_id, suffix) ==
    IF \E x \in folder : x.name = QRName(patient_id, 0, suffix)
    THEN QRName(patient_id, ProbeQR(folder, patient_id, suffix, 1), suffix)
    ELSE QRName(patient_id, 0, suffix)

\* open(done_dir / f"done_{session_id}_{patient_id}.txt", "w")
WriteDoneFile(files, session_id, patient_id, count, no) ==
    {x \in files : ~(x.session_id = session_id /\ x.patient_id = patient_id)}
        \cup {[session_id |-> session_id, patient_id |-> patient_id, count |-> count, no |-> no]}

\* open(error_dir / f"error_{session_id}.txt", 'w')
WriteErrorFile(files, session_id, patient_id, context, no) ==
    {x \in files : x.session_id # session_id}
        \cup {[session_id |-> session_id, patient_id |-> patient_id, context |-> context, no |-> no]}

InTryRelocateOnly(step) == step = "relocate"

InTryBackupOnly(step) == step \in {"collect", "limit", "backup"}

\* The steps inside the try block of _process_qr_trigger.
InTry(step) == step \in {"collect", "limit", "backup", "relocate", "record"}

RaisedEscapes(me, step) == [me EXCEPT !.phase = "crashed", !.exc = step]

\* An exception raised in a step: caught by the except clause, or leaving
\* _process_qr_trigger and process_images.
Raised(me, step) ==
    IF InTry(step) THEN [me EXCEPT !.phase = "record", !.exc = step]
    ELSE [me EXCEPT !.phase = "crashed", !.exc = step]

StopAlways == TRUE

StopNever == FALSE

\* if self.stop_on_error:
StopPolicy == config.stop_on_error

LimitNeverExceeded(count) == FALSE

LimitErrorFallsThrough == "backup"

LimitErrorCrashes == "crashed"

\* return, after the error report of the limit check
LimitErrorNext == "ended"

\* if len(qualifying_photos) > self.max_photos_per_session:
LimitExceeded(count) == count > config.max_photos_per_session

ObserverFirst == <<"start_observer", "scan", "loop", "join">>

\* run(): the startup scan, then the observer, then the polling loop.
RunOrder == <<"scan", "start_observer", "loop", "join">>

AtStep(step) == main_pc <= Len(RunOrder) /\ RunOrder[main_pc] = step

\* scan_existing_images keeps the images not older than startup_scan_minutes.
Recent(e) ==
    /\ e.is_file /\ ~should_skip_path(e) /\ is_image_file(e)
    /\ get_image_timestamp(e) >= Now - startup_scan_minutes * TicksPerMinute

\* The lists scan_existing_images may build, over all listings of the watch
\* folder, for every content S of the folder: tabulated once.
ScanTable ==
    {<<S, {SelectSeq(listing, LAMBDA f : Recent(Roster[f])) : listing \in Enumerations(S)}>> :
        S \in SUBSET Photos}
ScanOutcomes(S) == (CHOOSE t \in ScanTable : t[1] = S)[2]

\* ------------------------------------------------------------------- Init
\* No run of the collector on its own.
NoCollector == [stage |-> "none", attrs |-> <<>>, listing |-> <<>>, qr |-> 0, photos |-> <<>>]

Init ==
    /\ collector = NoCollector
    /\ config \in [stop_on_error : BOOLEAN, max_photos_per_session : 1..MaxPhotosBound]
    /\ watch_folder \in {1..k : k \in 0..NPhotos}
    /\ camera = Photos \ watch_folder
    /\ dest_files \in {{}, EarlierFiles}
    /\ dirs = UNION {Mkdir({}, SubDir(x.patient_id, x.date)) : x \in dest_files}
    /\ backup_files = {}
    /\ done_files = {}
    /\ error_files = {}
    /\ stop_requested = FALSE
    /\ main_pc = 1
    /\ observer = "unstarted"
    /\ event_queue = <<>>
    /\ worker = [w \in Workers |-> Idle]
    /\ session_count = 0
    /\ failures = 0

\* ---------------------------------------------------------- the camera
\* A photo appears in the watch folder while the program runs; the camera
\* writes its photos in the order of their numbers.
CameraWrites(f) ==
    /\ f \in camera
    /\ \A g \in camera : f <= g
    /\ main_pc <= Len(RunOrder)
    /\ camera' = camera \ {f}
    /\ watch_folder' = watch_folder \cup {f}
    /\ event_queue' = Emit(event_queue, <<FileEvent(f)>>)
    /\ UNCHANGED <<collector, config, dirs, backup_files, dest_files, done_files, error_files,
                   stop_requested, main_pc, observer, worker, session_count, failures>>

ExistsAlways(f) == TRUE

\* if not image_path.exists(): continue
Exists(f) == f \in watch_folder

\* ------------------------------------------------------- process_images
\* One iteration of the loop of process_images (or its return), with the
\* first lines of _process_qr_trigger when the image carries a QR code.
process_images(w) ==
    /\ worker[w].phase \in {"loop", "ended"}
    /\ LET me == worker[w]
           next == [Idle EXCEPT !.phase = "loop", !.batch = Tail(me.batch)]
       IN  IF me.batch = <<>>
           THEN /\ worker' = [worker EXCEPT ![w] = Idle]
                /\ main_pc' = IF w = "main" THEN main_pc + 1 ELSE main_pc
                /\ UNCHANGED session_count
           ELSE IF ~Exists(Head(me.batch))
           THEN /\ worker' = [worker EXCEPT ![w] = next]
                /\ UNCHANGED <<main_pc, session_count>>
           ELSE IF detect_qr_code(Roster[Head(me.batch)]) = ""
           THEN /\ worker' = [worker EXCEPT ![w] = next]
                /\ UNCHANGED <<main_pc, session_count>>
           ELSE /\ worker' = [worker EXCEPT ![w] =
                       [next EXCEPT !.phase = "collect",
                                    !.qr = Head(me.batch),
                                    !.patient_id = detect_qr_code(Roster[Head(me.batch)]),
                                    !.qr_timestamp = get_image_timestamp(Roster[Head(me.batch)]),
                                    !.session_id = generate_session_id(
                                        get_image_timestamp(Roster[Head(me.batch)])),
                                    !.no = session_count + 1,
                                    !.pre_dest = dest_files,
                                    !.pre_backup = backup_files,
                                    !.pre_dirs = dirs]]
                /\ session_count' = session_count + 1
                /\ UNCHANGED main_pc
    /\ UNCHANGED <<collector, config, watch_folder, camera, dirs, backup_files, dest_files, done_files,
                   error_files, stop_requested, observer, event_queue, failures>>

\* qualifying_photos = self._collect_qualifying_photos(qr_timestamp, qr_image_path)
collect(w) ==
    /\ worker[w].phase = "collect"
    /\ \E photos \in CollectOutcomes(watch_folder, worker[w].qr) :
          worker' = [worker EXCEPT ![w].phase = "limit", ![w].photos = photos]
    /\ UNCHANGED <<collector, config, watch_folder, camera, dirs, backup_files, dest_files, done_files,
                   error_files, stop_requested, main_pc, observer, event_queue,
                   session_count, failures>>

\* The limit check; beyond the limit an error report is written and
\* _process_qr_trigger returns.
limit_check(w) ==
    /\ worker[w].phase = "limit"
    /\ LET me == worker[w]
       IN  IF LimitExceeded(Len(me.photos))
           THEN /\ error_files' = WriteErrorFile(error_files, me.session_id, me.patient_id,
                                                 "Max photos per session exceeded", me.no)
                /\ dirs' = dirs \cup {TopDir("_error")}
                /\ worker' = [worker EXCEPT ![w].phase = LimitErrorNext, ![w].i = 0,
                                            ![w].outcome = "ERROR",
                                            ![w].context = "Max photos per session exceeded",
                                            ![w].n_error = me.n_error + 1]
           ELSE /\ worker' = [worker EXCEPT ![w].phase = "backup", ![w].i = 0]
                /\ UNCHANGED <<error_files, dirs>>
    /\ UNCHANGED <<collector, config, watch_folder, camera, backup_files, dest_files, done_files,
                   stop_requested, main_pc, observer, event_queue, session_count, failures>>

\* One step of _create_backup: the mkdir, the copy of one photo, or the copy
\* of the QR photo. Copying a file that is gone raises.
create_backup(w) ==
    /\ worker[w].phase = "backup"
    /\ LET me == worker[w]
           n == Len(me.photos)
       IN  IF me.i = 0
           THEN /\ dirs' = Mkdir(dirs, BackupDir(me.session_id))
                /\ worker' = [worker EXCEPT ![w].i = 1]
                /\ UNCHANGED backup_files
           ELSE IF me.i <= n
           THEN /\ IF me.photos[me.i] \in watch_folder
                   THEN /\ backup_files' = CopyToBackup(backup_files, me.session_id,
                                NumName(me.i, Roster[me.photos[me.i]].suffix), me.photos[me.i])
                        /\ worker' = [worker EXCEPT ![w].i = me.i + 1]
                   ELSE /\ worker' = [worker EXCEPT ![w] = Raised(me, "backup")]
                        /\ UNCHANGED backup_files
                /\ UNCHANGED dirs
           ELSE /\ IF me.qr \in watch_folder
                   THEN /\ backup_files' = CopyToBackup(backup_files, me.session_id,
                                QRName(me.patient_id, 0, Roster[me.qr].suffix), me.qr)
                        /\ worker' = [worker EXCEPT ![w].phase = "relocate", ![w].i = 0]
                   ELSE /\ worker' = [worker EXCEPT ![w] = Raised(me, "backup")]
                        /\ UNCHANGED backup_files
                /\ UNCHANGED dirs
    /\ UNCHANGED <<collector, config, watch_folder, camera, dest_files, done_files, error_files,
                   stop_requested, main_pc, observer, event_queue, session_count, failures>>

\* One step of organize_photos: the mkdir and the scan for seq_start, the
\* move of one photo, or the move of the QR photo. Moving a file that is
\* gone raises.
organize_photos(w) ==
    /\ worker[w].phase = "relocate"
    /\ LET me == worker[w]
           n == Len(me.photos)
           date == DateFolder(me.qr_timestamp)
           folder == DestFolder(dest_files, me.patient_id, date)
       IN  IF me.i = 0
           THEN /\ dirs' = Mkdir(dirs, DestDir(me.patient_id, me.qr_timestamp))
                /\ worker' = [worker EXCEPT ![w].i = 1, ![w].seq_start = SeqStart(folder)]
                /\ UNCHANGED <<dest_files, watch_folder>>
           ELSE IF me.i <= n
           THEN /\ IF me.photos[me.i] \in watch_folder
                   THEN /\ dest_files' = MoveToDest(dest_files, me.patient_id, date,
                                NumName(me.seq_start + me.i - 1, Roster[me.photos[me.i]].suffix),
                                me.photos[me.i])
                        /\ watch_folder' = watch_folder \ {me.photos[me.i]}
                        /\ worker' = [worker EXCEPT ![w].i = me.i + 1,
                                                    ![w].moved = me.moved \cup {me.photos[me.i]}]
                   ELSE /\ worker' = [worker EXCEPT ![w] = Raised(me, "relocate")]
                        /\ UNCHANGED <<dest_files, watch_folder>>
                /\ UNCHANGED dirs
           ELSE /\ IF me.qr \in watch_folder
                   THEN /\ dest_files' = MoveToDest(dest_files, me.patient_id, date,
                                QRDestName(folder, me.patient_id, Roster[me.qr].suffix), me.qr)
                        /\ watch_folder' = watch_folder \ {me.qr}
                        /\ worker' = [worker EXCEPT
                                ![w].phase = "record",
                                ![w].moved = me.moved \cup {me.qr},
                                ![w].qr_dest = QRDestName(folder, me.patient_id, Roster[me.qr].suffix)]
                   ELSE /\ worker' = [worker EXCEPT ![w] = Raised(me, "relocate")]
                        /\ UNCHANGED <<dest_files, watch_folder>>
                /\ UNCHANGED dirs
    /\ UNCHANGED <<collector, config, camera, backup_files, done_files, error_files,
                   stop_requested, main_pc, observer, event_queue, session_count, failures>>

\* The next mkdir, copy or move of the session fails with an I/O error.
io_error(w) ==
    /\ worker[w].phase \in {"backup", "relocate"}
    /\ failures < MaxFailures
    /\ failures' = failures + 1
    /\ worker' = [worker EXCEPT ![w] = Raised(worker[w], worker[w].phase)]
    /\ UNCHANGED <<collector, config, watch_folder, camera, dirs, backup_files, dest_files, done_files,
                   error_files, stop_requested, main_pc, observer, event_queue, session_count>>

\* self._write_done(session_id, patient_id, moved_count)
write_done(w) ==
    /\ worker[w].phase = "record"
    /\ worker[w].exc = ""
    /\ LET me == worker[w]
       IN  /\ done_files' = WriteDoneFile(done_files, me.session_id, me.patient_id,
                                          Cardinality(me.moved), me.no)
           /\ worker' = [worker EXCEPT ![w].phase = "ended", ![w].outcome = "DONE",
                                       ![w].n_done = me.n_done + 1]
    /\ dirs' = dirs \cup {TopDir("_done")}
    /\ UNCHANGED <<collector, config, watch_folder, camera, backup_files, dest_files, error_files,
                   stop_requested, main_pc, observer, event_queue, session_count, failures>>

\* except Exception as e: the error report, and the stop request under
\* stop_on_error.
except_handler(w) ==
    /\ worker[w].phase = "record"
    /\ worker[w].exc # ""
    /\ LET me == worker[w]
       IN  /\ error_files' = WriteErrorFile(error_files, me.session_id, me.patient_id,
                                            "Session processing failed", me.no)
           /\ worker' = [worker EXCEPT ![w].phase = "ended", ![w].outcome = "ERROR",
                                       ![w].context = "Session processing failed",
                                       ![w].n_error = me.n_error + 1]
    /\ dirs' = dirs \cup {TopDir("_error")}
    /\ stop_requested' = IF StopPolicy THEN TRUE ELSE stop_requested
    /\ UNCHANGED <<collector, config, watch_folder, camera, backup_files, dest_files, done_files,
                   main_pc, observer, event_queue, session_count, failures>>

\* ------------------------------------------------------ the main thread
\* scan_existing_images: the recent images of the watch folder, in the order
\* of the listing, go to process_images.
scan_existing_images ==
    /\ AtStep("scan")
    /\ worker["main"].phase = "idle"
    /\ \E images \in ScanOutcomes(watch_folder) :
          IF images # <<>>
          THEN /\ worker' = [worker EXCEPT !["main"] =
                                [Idle EXCEPT !.phase = "loop", !.batch = images]]
               /\ UNCHANGED main_pc
          ELSE /\ main_pc' = main_pc + 1
               /\ UNCHANGED worker
    /\ UNCHANGED <<collector, config, watch_folder, camera, dirs, backup_files, dest_files, done_files,
                   error_files, stop_requested, observer, event_queue, session_count, failures>>

\* observer.schedule(...); observer.start()
start_observer ==
    /\ AtStep("start_observer")
    /\ observer' = "running"
    /\ main_pc' = main_pc + 1
    /\ UNCHANGED <<collector, config, watch_folder, camera, dirs, backup_files, dest_files, done_files,
                   error_files, stop_requested, event_queue, worker, session_count, failures>>

\* while not self.stop_requested: time.sleep(1) -- left when the flag is seen,
\* then observer.stop().
main_loop_exit ==
    /\ AtStep("loop")
    /\ stop_requested
    /\ observer' = IF observer = "running" THEN "stopping" ELSE observer
    /\ main_pc' = main_pc + 1
    /\ UNCHANGED <<collector, config, watch_folder, camera, dirs, backup_files, dest_files, done_files,
                   error_files, stop_requested, event_queue, worker, session_count, failures>>

\* except KeyboardInterrupt: pass, then observer.stop().
keyboard_interrupt ==
    /\ AtStep("loop")
    /\ ~stop_requested
    /\ observer' = IF observer = "running" THEN "stopping" ELSE observer
    /\ main_pc' = main_pc + 1
    /\ UNCHANGED <<collector, config, watch_folder, camera, dirs, backup_files, dest_files, done_files,
                   error_files, stop_requested, event_queue, worker, session_count, failures>>

\* observer.join(): returns once the observer thread has ended.
observer_join ==
    /\ AtStep("join")
    /\ observer \in {"stopped", "unstarted"}
    /\ main_pc' = main_pc + 1
    /\ UNCHANGED <<collector, config, watch_folder, camera, dirs, backup_files, dest_files, done_files,
                   error_files, stop_requested, observer, event_queue, worker,
                   session_count, failures>>

\* -------------------------------------------------- the observer thread
\* PhotoEventHandler.on_created, called by the observer thread for the next
\* queued event: one call at a time.
on_created ==
    /\ observer = "running"
    /\ worker["observer"].phase = "idle"
    /\ event_queue # <<>>
    /\ LET event == Head(event_queue)
       IN  IF event.is_directory
           THEN UNCHANGED worker
           ELSE IF should_skip_path(Roster[event.file])
           THEN UNCHANGED worker
           ELSE IF is_image_file(Roster[event.file])
           THEN worker' = [worker EXCEPT !["observer"] =
                              [Idle EXCEPT !.phase = "loop", !.batch = <<event.file>>]]
           ELSE UNCHANGED worker
    /\ event_queue' = Tail(event_queue)
    /\ UNCHANGED <<collector, config, watch_folder, camera, dirs, backup_files, dest_files, done_files,
                   error_files, stop_requested, main_pc, observer, session_count, failures>>

\* The observer thread ends after observer.stop(), once the handler it is
\* running has returned.
observer_exit ==
    /\ observer = "stopping"
    /\ worker["observer"].phase = "idle"
    /\ observer' = "stopped"
    /\ UNCHANGED <<collector, config, watch_folder, camera, dirs, backup_files, dest_files, done_files,
                   error_files, stop_requested, main_pc, event_queue, worker,
                   session_count, failures>>

\* ------------------------------------------------------------------- Next
Next ==
    \/ \E f \in Photos : CameraWrites(f)
    \/ scan_existing_images
    \/ start_observer
    \/ main_loop_exit
    \/ keyboard_interrupt
    \/ observer_join
    \/ on_created
    \/ observer_exit
    \/ \E w \in Workers : process_images(w)
    \/ \E w \in Workers : collect(w)
    \/ \E w \in Workers : limit_check(w)
    \/ \E w \in Workers : create_backup(w)
    \/ \E w \in Workers : organize_photos(w)
    \/ \E w \in Workers : io_error(w)
    \/ \E w \in Workers : write_done(w)
    \/ \E w \in Workers : except_handler(w)

Spec == Init /\ [][Next]_vars

\* The steps of each thread. The operating system schedules both threads, so
\* a thread that can take a step eventually takes one; the camera, the I/O
\* errors and Ctrl+C are the environment's and need not happen.
SessionSteps(w) ==
    \/ process_images(w) \/ collect(w) \/ limit_check(w) \/ create_backup(w)
    \/ organize_photos(w) \/ write_done(w) \/ except_handler(w)
MainSteps ==
    \/ scan_existing_images \/ start_observer \/ main_loop_exit \/ observer_join
    \/ SessionSteps("main")
ObserverSteps == on_created \/ observer_exit \/ SessionSteps("observer")

SpecFair == Spec /\ WF_vars(MainSteps) /\ WF_vars(ObserverSteps)

\* ------------------------------------------- the collector on its own
\* _collect_qualifying_photos applied to a watch folder of NEntries entries
\* of every kind: entry 1 is the trigger photo, taken at CBase.
Entries == 1..NEntries
CBase == Base

\* The trigger photo: dated by its EXIF date, or by its modification time.
TriggerKinds ==
    {[is_file |-> TRUE, first |-> "I", suffix |-> ".jpg", resolved |-> 1, exif_ok |-> ok,
      exif |-> IF ok THEN CBase \div TicksPerSecond ELSE 0,
      mtime |-> IF ok THEN CBase + 3 ELSE CBase, qr |-> QR(TRUE, "P1")] : ok \in BOOLEAN}

\* Timestamps around the two ends of the window.
MTimes == {CBase - Window - 1, CBase - Window, CBase - 1, CBase, CBase + 1}
ExifTimes ==
    {(CBase - Window) \div TicksPerSecond - 1, (CBase - Window) \div TicksPerSecond,
     CBase \div TicksPerSecond, CBase \div TicksPerSecond + 1}

Plain(e, suffix, exif_ok, exif, mtime) ==
    [is_file |-> TRUE, first |-> "I", suffix |-> suffix, resolved |-> e, exif_ok |-> exif_ok,
     exif |-> exif, mtime |-> mtime, qr |-> NoQR]

\* The kinds of entry e: images dated by modification time (the EXIF date
\* missing or unreadable) or by EXIF date, a directory, reserved names, a
\* file that is no image, an upper-case suffix, a QR photo, and another path
\* of the trigger photo itself.
EntryKinds(e) ==
    {Plain(e, ".jpg", FALSE, CBase \div TicksPerSecond, t) : t \in MTimes}
    \cup {Plain(e, ".png", TRUE, t, CBase + 1) : t \in ExifTimes}
    \cup {[Plain(e, ".jpg", FALSE, 0, CBase - 1) EXCEPT !.is_file = FALSE],
          [Plain(e, ".jpg", FALSE, 0, CBase - 1) EXCEPT !.first = "_"],
          [Plain(e, ".jpg", FALSE, 0, CBase - 1) EXCEPT !.first = "."],
          Plain(e, ".txt", FALSE, 0, CBase - 1),
          Plain(e, ".JPG", FALSE, 0, CBase - 1),
          [Plain(e, ".jpg", FALSE, 0, CBase - 1) EXCEPT !.qr = QR(FALSE, "P2")],
          [Plain(e, ".jpg", FALSE, 0, CBase - 1) EXCEPT !.resolved = 1]}

\* Every watch folder of the trigger photo and one entry of some kind at each
\* other place, in every order the directory listing can give them.
Placed(kind, e) == [kind EXCEPT !.resolved = IF kind.resolved = 0 THEN e ELSE kind.resolved]

CollectorInputs ==
    {[stage |-> "input",
      attrs |-> [e \in Entries |-> IF e = 1 THEN trigger ELSE Placed(kinds[e], e)],
      listing |-> listing, qr |-> 1, photos |-> <<>>] :
        trigger \in TriggerKinds,
        kinds \in [Entries \ {1} -> EntryKinds(0)],
        listing \in Enumerations(Entries)}

InitCollect ==
    /\ collector \in CollectorInputs
    /\ config = [stop_on_error |-> FALSE, max_photos_per_session |-> 1]
    /\ watch_folder = {}
    /\ camera = {}
    /\ dest_files = {}
    /\ dirs = {}
    /\ backup_files = {}
    /\ done_files = {}
    /\ error_files = {}
    /\ stop_requested = FALSE
    /\ main_pc = Len(RunOrder) + 1
    /\ observer = "unstarted"
    /\ event_queue = <<>>
    /\ worker = [w \in Workers |-> Idle]
    /\ session_count = 0
    /\ failures = 0

\* qualifying_photos = self._collect_qualifying_photos(qr_timestamp, qr_image_path)
RunCollector ==
    /\ collector.stage = "input"
    /\ collector' = [collector EXCEPT
           !.stage = "collected",
           !.photos = collect_qualifying_photos(collector.listing, collector.attrs,
                          get_image_timestamp(collector.attrs[collector.qr]), collector.qr)]
    /\ UNCHANGED <<config, watch_folder, camera, dirs, backup_files, dest_files, done_files,
                   error_files, stop_requested, main_pc, observer, event_queue, worker,
                   session_count, failures>>

NextCollect == RunCollector

SpecCollect == InitCollect /\ [][NextCollect]_vars

\* The program, and the collector on its own (run() not running).
InitBoth == Init \/ InitCollect
NextBoth == Next \/ NextCollect
SpecBoth == InitBoth /\ [][NextBoth]_vars

\* ================================================================ claims
\* A session that has returned from _process_qr_trigger.
Ended(w) == worker[w].phase = "ended"
\* The destination folder of w's session as it was when the session began.
PreFolder(w) ==
    DestFolder(worker[w].pre_dest, worker[w].patient_id, DateFolder(worker[w].qr_timestamp))
\* The destination folder of w's session as it is now.
NowFolder(w) ==
    DestFolder(dest_files, worker[w].patient_id, DateFolder(worker[w].qr_timestamp))

\* C1: a session that collected more photos than max_photos_per_session
\* leaves every collected photo and the trigger photo in the watch folder,
\* adds nothing to _backup or to any destination folder, makes neither a
\* backup nor a destination directory, and writes exactly one error report
\* and no completion record.
C1_LimitViolationMutatesNothing ==
    \A w \in Workers :
        (Ended(w) /\ Len(worker[w].photos) > config.max_photos_per_session) =>
            /\ Range(worker[w].photos) \cup {worker[w].qr} \subseteq watch_folder
            /\ worker[w].moved = {}
            /\ backup_files = worker[w].pre_backup
            /\ dest_files = worker[w].pre_dest
            /\ dirs \ {TopDir("_error")} = worker[w].pre_dirs \ {TopDir("_error")}
            /\ worker[w].n_error = 1
            /\ worker[w].n_done = 0
            /\ \E x \in error_files :
                  x.session_id = worker[w].session_id /\ x.no = worker[w].no

\* C1 witness: a session of three collected photos under a limit of two has
\* ended (Scenario B).
C1_Witness ==
    \E w \in Workers :
        /\ Ended(w)
        /\ Len(worker[w].photos) = 3
        /\ config.max_photos_per_session = 2
        /\ worker[w].outcome = "ERROR"

\* The suffixes that are supported formats when case is ignored.
C2_Supported == {".jpg", ".JPG", ".jpeg", ".png", ".PNG", ".gif", ".bmp"}
C2_Timestamp(a) == IF a.exif_ok THEN a.exif * TicksPerSecond ELSE a.mtime
C2_Qualifies(a, e, qr) ==
    /\ a[e].is_file
    /\ a[e].first \notin {"_", "."}
    /\ a[e].suffix \in C2_Supported
    /\ a[e].resolved # a[qr].resolved
    /\ C2_Timestamp(a[qr]) - max_minutes_window * 60 * TicksPerSecond <= C2_Timestamp(a[e])
    /\ C2_Timestamp(a[e]) <= C2_Timestamp(a[qr])

\* C2: the photos collected for a trigger are exactly the entries of the
\* watch folder that are regular files, eligible by name and suffix, not the
\* trigger itself under any path, and dated (EXIF date, else modification
\* time) within [trigger - window, trigger], both ends included; each once.
C2_MembersExact ==
    collector.stage = "collected" =>
        /\ Range(collector.photos) =
               {e \in DOMAIN collector.attrs : C2_Qualifies(collector.attrs, e, collector.qr)}
        /\ Cardinality(Range(collector.photos)) = Len(collector.photos)

\* C2 witness: a photo without readable EXIF date, modified exactly one
\* window before the trigger, is collected, and a photo one tick older is not.
C2_Witness ==
    /\ collector.stage = "collected"
    /\ \E e \in Range(collector.photos) :
          /\ ~collector.attrs[e].exif_ok
          /\ collector.attrs[e].mtime = C2_Timestamp(collector.attrs[collector.qr]) - Window
    /\ \E e \in DOMAIN collector.attrs :
          /\ e \notin Range(collector.photos)
          /\ ~collector.attrs[e].exif_ok
          /\ collector.attrs[e].mtime = C2_Timestamp(collector.attrs[collector.qr]) - Window - 1

\* The sequence numbers in the destination folder when w's session began.
C3_PreNums(w) == {StemInt(x.name.stem) : x \in {y \in PreFolder(w) : y.name.kind = "num"}}
C3_First(w) == IF C3_PreNums(w) = {} THEN 1 ELSE Max(C3_PreNums(w)) + 1

\* C3: the i-th collected photo a session has moved is in the destination
\* folder under the number (largest number in the folder before the
\* session) + i, or i in a folder without numbers, with its own suffix; that
\* number is above every number the folder held before, and every numbered
\* file the folder held before is still there with its content.
C3_NumbersAppend ==
    \A w \in Workers :
        /\ \A i \in 1..Len(worker[w].photos) :
              worker[w].photos[i] \in worker[w].moved =>
                  \E x \in NowFolder(w) :
                      /\ x.content = worker[w].photos[i]
                      /\ x.name.kind = "num"
                      /\ StemInt(x.name.stem) = C3_First(w) + i - 1
                      /\ x.name.suffix = Roster[worker[w].photos[i]].suffix
                      /\ \A n \in C3_PreNums(w) : StemInt(x.name.stem) > n
        /\ \A x \in PreFolder(w) : x.name.kind = "num" => x \in dest_files

\* C3 witness: a session of two photos has completed in a folder that held
\* numbered files of an earlier session of this run.
C3_Witness ==
    \E w \in Workers :
        /\ Ended(w)
        /\ worker[w].outcome = "DONE"
        /\ Len(worker[w].photos) = 2
        /\ \E x \in PreFolder(w) : x.name.kind = "num" /\ x.content \in Photos

\* C4: after a session that ended in DONE its backup folder holds exactly
\* (number of collected photos) + 1 files.
C4_BackupHoldsMembersPlusOne ==
    \A w \in Workers :
        (Ended(w) /\ worker[w].outcome = "DONE") =>
            Cardinality(BackupFolder(backup_files, worker[w].session_id))
                = Len(worker[w].photos) + 1

\* C5: after a session that ended in DONE every file the destination folder
\* held before is still there under its name with its content, every
\* collected photo and the trigger photo is in the folder under a name no
\* other file of the folder has, the folder has grown by exactly these files,
\* and none of them is left in the watch folder.
C5_DoneMovesAllKeepsAll ==
    \A w \in Workers :
        (Ended(w) /\ worker[w].outcome = "DONE") =>
            /\ worker[w].pre_dest \subseteq dest_files
            /\ \A f \in Range(worker[w].photos) \cup {worker[w].qr} :
                  /\ f \notin watch_folder
                  /\ \E x \in NowFolder(w) :
                        /\ x.content = f
                        /\ \A y \in NowFolder(w) : y.name = x.name => y = x
            /\ Cardinality(NowFolder(w)) = Cardinality(PreFolder(w)) + Len(worker[w].photos) + 1

\* C5 witness: a session with collected photos has completed in a folder
\* that held a trigger photo of the same name and numbered files.
C5_Witness ==
    \E w \in Workers :
        /\ Ended(w)
        /\ worker[w].outcome = "DONE"
        /\ Len(worker[w].photos) >= 1
        /\ \E x \in PreFolder(w) :
              x.name = QRName(worker[w].patient_id, 0, Roster[worker[w].qr].suffix)
        /\ \E x \in PreFolder(w) : x.name.kind = "num"

\* The suffix numbers n of the names QR_{patient}[_{n}]{suffix} in the
\* destination folder when w's session began (0: the name without suffix).
C6_Used(w) ==
    {x.name.n : x \in {y \in PreFolder(w) :
                          /\ y.name.kind = "QR"
                          /\ y.name.patient = worker[w].patient_id
                          /\ y.name.suffix = Roster[worker[w].qr].suffix}}

\* C6: a trigger photo that has been moved is stored as QR_{patient}{suffix}
\* if that name was free, else as QR_{patient}_{n}{suffix} with n the smallest
\* integer >= 1 whose name was free; the QR files the folder held before are
\* still there with their content.
C6_SmallestFreeQRName ==
    \A w \in Workers :
        worker[w].qr \in worker[w].moved =>
            /\ \E x \in NowFolder(w) :
                  /\ x.content = worker[w].qr
                  /\ x.name.kind = "QR"
                  /\ x.name.patient = worker[w].patient_id
                  /\ x.name.suffix = Roster[worker[w].qr].suffix
                  /\ IF 0 \notin C6_Used(w) THEN x.name.n = 0
                     ELSE /\ x.name.n >= 1
                          /\ x.name.n \notin C6_Used(w)
                          /\ \A m \in 1..(x.name.n - 1) : m \in C6_Used(w)
            /\ \A y \in PreFolder(w) : y.name.kind = "QR" => y \in dest_files

\* C6 witness: a second session of this run for the same patient and day
\* stores its trigger photo under suffix 3, the names without suffix and
\* with suffixes 1 and 2 being taken.
C6_Witness ==
    \E w \in Workers :
        /\ worker[w].qr \in worker[w].moved
        /\ C6_Used(w) = {0, 1, 2}
        /\ \E x \in PreFolder(w) : x.name.kind = "QR" /\ x.content \in Photos
        /\ \E x \in NowFolder(w) : x.content = worker[w].qr /\ x.name.n = 3

\* C7: a session that is over has written exactly one record, a completion
\* record if it ended in DONE and an error report if it ended in ERROR, and
\* has ended in one of the two; a session still running has written none.
C7_OneRecordPerSession ==
    \A w \in Workers :
        /\ worker[w].phase \in {"ended", "crashed"} =>
              /\ worker[w].outcome \in {"DONE", "ERROR"}
              /\ worker[w].n_done + worker[w].n_error = 1
              /\ worker[w].outcome = "DONE" =>
                    /\ worker[w].n_done = 1
                    /\ \E x \in done_files : x.no = worker[w].no
              /\ worker[w].outcome = "ERROR" =>
                    /\ worker[w].n_error = 1
                    /\ \E x \in error_files : x.no = worker[w].no
        /\ InSession(w) => worker[w].n_done + worker[w].n_error = 0

\* C7 witness: a session has ended in ERROR on a failed move after an earlier
\* session of the run ended in DONE.
C7_Witness ==
    \E w \in Workers :
        /\ Ended(w)
        /\ worker[w].outcome = "ERROR"
        /\ worker[w].exc = "relocate"
        /\ done_files # {}

\* C8: an exception raised in the backup or the relocation step never leaves
\* _process_qr_trigger: the session goes on to its error report, ends in
\* ERROR with that report written, and its thread is back in the loop of
\* process_images, able to take the next image of the batch.
C8_FailuresCaught ==
    \A w \in Workers :
        worker[w].exc \in {"backup", "relocate"} =>
            /\ worker[w].phase \in {"record", "ended"}
            /\ Ended(w) =>
                  /\ worker[w].outcome = "ERROR"
                  /\ worker[w].n_error = 1
                  /\ \E x \in error_files :
                        /\ x.no = worker[w].no
                        /\ x.session_id = worker[w].session_id
                        /\ x.context = "Session processing failed"
                  /\ ENABLED process_images(w)

\* C8 witness: a session of the startup scan has ended in ERROR on a failed
\* backup with images of its batch still to process.
C8_Witness ==
    /\ Ended("main")
    /\ worker["main"].exc = "backup"
    /\ worker["main"].outcome = "ERROR"
    /\ worker["main"].batch # <<>>

\* C9: the main thread and the observer thread are never both inside
\* process_images, so no two sessions and no two collector scans overlap.
C9_OneSessionAtATime ==
    /\ ~(worker["main"].phase # "idle" /\ worker["observer"].phase # "idle")
    /\ ~(InSession("main") /\ InSession("observer"))

\* C9 witness: the observer thread is collecting for a live event, after a
\* session of the startup scan, with a further event queued.
C9_Witness ==
    /\ worker["observer"].phase = "collect"
    /\ worker["observer"].no >= 2
    /\ event_queue # <<>>

\* C10: without stop_on_error the stop flag is never set.
C10_StopOnlyUnderPolicy == ~config.stop_on_error => ~stop_requested

\* C10 witness: without stop_on_error a session has ended in ERROR on an
\* exception, after another session ended in DONE.
C10_Witness ==
    /\ ~config.stop_on_error
    /\ done_files # {}
    /\ \E w \in Workers : Ended(w) /\ worker[w].outcome = "ERROR" /\ worker[w].exc # ""

\* C11: a completion record or an error report, once written, stays on disk
\* with the content it was written with: no step replaces or removes it.
C11_RecordsNeverReplaced ==
    [][/\ \A x \in done_files : x \in done_files'
       /\ \A x \in error_files : x \in error_files']_vars

\* The place of entry e in a directory listing.
C12_Place(listing, e) == CHOOSE i \in 1..Len(listing) : listing[i] = e

\* The files of a session numbered so far: copied to the backup folder, and
\* moved to the destination folder.
C12_Copied(w) ==
    IF worker[w].phase = "backup" \/ worker[w].exc = "backup"
    THEN 1..(worker[w].i - 1)
    ELSE IF worker[w].phase \in {"relocate", "record", "ended"} /\ worker[w].outcome # ""
              /\ worker[w].context = "Max photos per session exceeded"
    THEN {}
    ELSE IF worker[w].phase \in {"relocate", "record", "ended"}
    THEN 1..Len(worker[w].photos)
    ELSE {}
C12_Moved(w) ==
    IF worker[w].phase \in {"relocate", "record", "ended"} /\ worker[w].exc # "backup"
    THEN {k \in 1..Len(worker[w].photos) : k <= worker[w].i - 1}
    ELSE {}

\* C12: the collected photos are in non-decreasing order of timestamp, photos
\* of equal timestamp in the order of the directory listing; the k-th
\* collected photo is the one copied to the backup folder as number k and
\* moved to the destination folder as number seq_start + k - 1.
C12_SortedStableNumbering ==
    /\ collector.stage = "collected" =>
          \A i, j \in 1..Len(collector.photos) :
              i < j =>
                  LET ti == get_image_timestamp(collector.attrs[collector.photos[i]])
                      tj == get_image_timestamp(collector.attrs[collector.photos[j]])
                  IN  /\ ti <= tj
                      /\ ti = tj => C12_Place(collector.listing, collector.photos[i])
                                        < C12_Place(collector.listing, collector.photos[j])
    /\ \A w \in Workers :
          LET me == worker[w]
          IN  /\ \A i, j \in 1..Len(me.photos) :
                    i < j => get_image_timestamp(Roster[me.photos[i]])
                                 <= get_image_timestamp(Roster[me.photos[j]])
              /\ \A k \in C12_Copied(w) :
                    [session_id |-> me.session_id,
                     name |-> NumName(k, Roster[me.photos[k]].suffix),
                     content |-> me.photos[k]] \in backup_files
              /\ \A k \in C12_Moved(w) :
                    [patient_id |-> me.patient_id, date |-> DateFolder(me.qr_timestamp),
                     name |-> NumName(me.seq_start + k - 1, Roster[me.photos[k]].suffix),
                     content |-> me.photos[k]] \in dest_files

\* C12 witness: the collector has returned two photos of equal timestamp, one
\* dated by its EXIF date and one by its modification time, the one listed
\* first in the directory first although its entry number is the larger.
C12_Witness ==
    /\ collector.stage = "collected"
    /\ Len(collector.photos) = 2
    /\ get_image_timestamp(collector.attrs[collector.photos[1]])
           = get_image_timestamp(collector.attrs[collector.photos[2]])
    /\ collector.attrs[collector.photos[1]].exif_ok
    /\ ~collector.attrs[collector.photos[2]].exif_ok
    /\ collector.photos[1] > collector.photos[2]

\* A session whose collected photos exceeded the limit, until its thread
\* takes the next image.
C13_LimitState ==
    \A w \in Workers :
        worker[w].context = "Max photos per session exceeded" =>
            /\ worker[w].phase = "ended"
            /\ worker[w].outcome = "ERROR"
            /\ worker[w].n_error = 1 /\ worker[w].n_done = 0
            /\ Range(worker[w].photos) \cup {worker[w].qr} \subseteq watch_folder
            /\ backup_files = worker[w].pre_backup
            /\ dest_files = worker[w].pre_dest
            /\ ENABLED process_images(w)

\* C13: a session beyond the limit ends in ERROR with one error report and
\* nothing copied or moved, its thread is back in the loop of process_images,
\* and the step that reports the violation leaves stop_requested as it was.
C13_LimitViolationContinues ==
    /\ []C13_LimitState
    /\ [][(\E w \in Workers : limit_check(w)) => stop_requested' = stop_requested]_vars

\* C13 witness: under stop_on_error, after a session beyond the limit, the
\* stop flag is not set and the observer thread is in a session for a later
\* trigger photo.
C13_Witness ==
    /\ config.stop_on_error
    /\ ~stop_requested
    /\ InSession("observer")
    /\ \E x \in error_files :
          /\ x.context = "Max photos per session exceeded"
          /\ x.no < worker["observer"].no
          /\ x.session_id # worker["observer"].session_id

\* The session of thread w has copied all its photos and its trigger photo to
\* its backup folder.
C14_BackedUp(w) ==
    /\ \A k \in 1..Len(worker[w].photos) :
          \E b \in BackupFolder(backup_files, worker[w].session_id) :
              b.content = worker[w].photos[k]
    /\ \E b \in BackupFolder(backup_files, worker[w].session_id) : b.content = worker[w].qr

\* C14: a session reaches the relocation only through the backup, whenever it
\* has moved a file its backup folder holds a copy of each of its photos and
\* of its trigger photo, a failed backup moves nothing, and in every state
\* every photo moved out of the watch folder has its copy in a backup folder.
C14_BackupBeforeMove ==
    /\ \A w \in Workers :
          /\ worker[w].phase = "relocate" => C14_BackedUp(w)
          /\ worker[w].moved # {} => C14_BackedUp(w)
          /\ worker[w].exc = "backup" => worker[w].moved = {}
    /\ \A x \in dest_files :
          x.content \in Photos => \E b \in backup_files : b.content = x.content

\* The destination file of the k-th photo of the session of thread w.
C15_DestFile(w, k) ==
    [patient_id |-> worker[w].patient_id, date |-> DateFolder(worker[w].qr_timestamp),
     name |-> NumName(worker[w].seq_start + k - 1, Roster[worker[w].photos[k]].suffix),
     content |-> worker[w].photos[k]]

\* C15: when the relocation raised at the i-th file, the photos before it
\* are in the destination folder under their numbers and out of the watch
\* folder, the others and the trigger photo are in the watch folder and not
\* in the destination folder, the folder is what it was plus the moved
\* photos, and the session ends in ERROR with an error report and no
\* completion record.
C15_PartialRelocationStays ==
    \A w \in Workers :
        worker[w].exc = "relocate" =>
            LET me == worker[w]
                done == {k \in 1..Len(me.photos) : k < me.i}
                left == (1..Len(me.photos)) \ done
            IN  /\ me.phase \in {"record", "ended"}
                /\ \A k \in done : C15_DestFile(w, k) \in dest_files
                                      /\ me.photos[k] \notin watch_folder
                /\ \A k \in left : /\ me.photos[k] \in watch_folder
                                   /\ \A x \in dest_files : x.content # me.photos[k]
                /\ me.qr \in watch_folder
                /\ \A x \in dest_files : x.content # me.qr
                /\ dest_files = me.pre_dest \cup {C15_DestFile(w, k) : k \in done}
                /\ Ended(w) =>
                      /\ me.outcome = "ERROR"
                      /\ me.n_error = 1 /\ me.n_done = 0
                      /\ \E x \in error_files : x.no = me.no
                      /\ \A x \in done_files : x.no # me.no

\* C15 witness: the move of the second of two photos failed; the session has
\* ended with the first photo moved.
C15_Witness ==
    \E w \in Workers :
        /\ Ended(w)
        /\ worker[w].exc = "relocate"
        /\ Len(worker[w].photos) = 2
        /\ worker[w].i = 2
        /\ worker[w].moved = {worker[w].photos[1]}

\* C16: once the stop has been requested no session starts on the observer
\* thread. A batch of the observer thread is one image, so a session that
\* starts there after the request is for an image outside the batch of the
\* session that requested the stop; the batch of the startup scan may go on.
C16_NoSessionAfterStop ==
    [][(stop_requested /\ session_count' # session_count)
           => worker'["observer"].no # session_count']_vars

\* C17: under stop_on_error a session that ended in ERROR on a failed backup
\* or relocation has set stop_requested; once the flag is set the main loop
\* is eventually left and observer.stop() called; without stop_on_error the
\* main loop is never left on account of the flag.
C17_StopEndsMonitoring ==
    /\ [](\A w \in Workers :
             (config.stop_on_error /\ Ended(w) /\ worker[w].exc \in {"backup", "relocate"})
                 => stop_requested)
    /\ (stop_requested ~> (observer \in {"stopping", "stopped"}
                             /\ (AtStep("join") \/ main_pc > Len(RunOrder))))
    /\ [](~config.stop_on_error => ~ENABLED main_loop_exit)

\* C17 witness: the flag was set by a failed session and run() has returned
\* with the observer stopped.
C17_Witness ==
    /\ config.stop_on_error
    /\ stop_requested
    /\ observer = "stopped"
    /\ main_pc > Len(RunOrder)
    /\ \E x \in error_files : x.context = "Session processing failed"

\* C18: every session that has started ends, in DONE or in ERROR; the loops
\* of the backup and of the relocation never pass the number of collected
\* photos, and the probe for a free QR name stops at a counter that is at
\* most the number of QR files the destination folder held.
C18_SessionsTerminate ==
    /\ \A w \in Workers :
          InSession(w) ~> (Ended(w) /\ worker[w].outcome \in {"DONE", "ERROR"})
    /\ [](\A w \in Workers :
             /\ worker[w].phase \in {"backup", "relocate"}
                    => worker[w].i <= Len(worker[w].photos) + 1
             /\ worker[w].qr \in worker[w].moved
                    => worker[w].qr_dest.n
                           <= Cardinality({x \in PreFolder(w) : x.name.kind = "QR"}))

\* C18 witness: a session with two photos has ended in DONE after the probe
\* went past QR names in use.
C18_Witness ==
    \E w \in Workers :
        /\ Ended(w)
        /\ worker[w].outcome = "DONE"
        /\ Len(worker[w].photos) = 2
        /\ worker[w].qr_dest.n >= 1

\* The photos carrying a QR code that lie in the window of w's trigger photo.
C19_MarkersInWindow(w) ==
    {f \in watch_folder \ {worker[w].qr} :
        /\ detect_qr_code(Roster[f]) # ""
        /\ InWindow(get_image_timestamp(Roster[f]), worker[w].qr_timestamp)}

\* C19: the collector returns the photos of the window that carry a QR code
\* like any other; a collected photo that has been moved is in the folder of
\* the trigger's patient under a sequence number, whatever QR code it
\* carries; a moved photo is not in the watch folder again, and a session
\* starts only for a photo that is in the watch folder.
C19_MarkerPhotoCollectedAsMember ==
    /\ [][\A w \in Workers :
             collect(w) => C19_MarkersInWindow(w) \subseteq Range(worker'[w].photos)]_vars
    /\ [](\A w \in Workers : \A f \in worker[w].moved \ {worker[w].qr} :
             \E x \in dest_files :
                 /\ x.content = f
                 /\ x.name.kind = "num"
                 /\ x.patient_id = worker[w].patient_id)
    /\ [](\A x \in dest_files : x.content \notin watch_folder)
    /\ [][\A w \in Workers :
             worker'[w].no # worker[w].no /\ worker'[w].no # 0
                 => worker'[w].qr \in watch_folder]_vars

\* C19 witness: a photo carrying the QR code of P1 is stored under a sequence
\* number in a folder of P2, whose trigger photo was processed first.
C19_Witness ==
    \E x \in dest_files :
        /\ x.patient_id = "P2"
        /\ x.name.kind = "num"
        /\ x.content \in Photos
        /\ detect_qr_code(Roster[x.content]) = "P1"

\* C20: an image of a batch that is no longer in the watch folder when its
\* turn comes is passed over without a session; no photo is stored twice in
\* the destination folders; and every photo a running session has collected
\* and not yet moved itself, and its trigger photo, is still in the watch
\* folder, so no copy or move meets a file that another session moved.
C20_MovedOnlyOnce ==
    /\ [][\A w \in Workers :
             (process_images(w) /\ worker[w].batch # <<>>
                  /\ Head(worker[w].batch) \notin watch_folder)
                 => /\ session_count' = session_count
                    /\ worker'[w].phase = "loop"
                    /\ worker'[w].batch = Tail(worker[w].batch)]_vars
    /\ [](\A f \in Photos : Cardinality({x \in dest_files : x.content = f}) <= 1)
    /\ [](\A w \in Workers :
             worker[w].phase \in {"limit", "backup", "relocate"} =>
                 (Range(worker[w].photos) \cup {worker[w].qr}) \ worker[w].moved
                     \subseteq watch_folder)
    /\ [](\A w \in Workers : worker[w].exc \in {"backup", "relocate"} => failures > 0)

\* C20 witness: the startup scan is over; photo 4, which carries a QR code
\* and was in its batch, was moved as a member of the session of photo 5 and
\* passed over when its turn came.
C20_Witness ==
    /\ observer = "unstarted"
    /\ worker["main"].phase = "idle"
    /\ ~AtStep("scan")
    /\ \E x \in dest_files : x.patient_id = "P2" /\ x.name.kind = "num" /\ x.content = 4
====
